---- MODULE Spec2Model ----
(***************************************************************************)
(* Model of dstclient/api.py: the DerStandardAPI client.                   *)
(*                                                                         *)
(* The four public coroutines (get_ticker_threads, get_thread_postings,    *)
(* get_forum_postings, update_cookies) run as tasks of one asyncio event   *)
(* loop.  A step of a task is the code between two awaits.  The consent    *)
(* automation (_accept_conditions) runs on a thread of a                   *)
(* ThreadPoolExecutor, outside the loop.                                   *)
(***************************************************************************)
EXTENDS Integers, Sequences, FiniteSets, TLC

VARIABLES
    cookies,         \* self._cookies: None or the cookie jar of a refresh
    caller_session,  \* state of the ClientSession the caller may supply
    live,            \* sessions created by the client that are still open
    pc,              \* position of each public operation's task
    cs,              \* per operation: was client_session supplied?
    requests,        \* per operation: the HTTP requests issued so far
    failed_at,       \* per operation: index of the request that failed (0: none)
    postings,        \* get_thread_postings: the local list `postings`
    fetched,         \* get_thread_postings: pages received so far
    tp_result,       \* get_thread_postings: the returned list
    fp_result,       \* get_forum_postings: the returned list
    forest,          \* get_forum_postings: the root nodes of the response
    raw_postings,    \* get_forum_postings: the local list `raw_postings`
    worker,          \* the executor thread running _accept_conditions
    uc_calls,        \* number of update_cookies calls made so far
    store            \* the backend's postings of the thread (store backend)

vars == <<cookies, caller_session, live, pc, cs, requests, failed_at,
          postings, fetched, tp_result, fp_result, forest, raw_postings,
          worker, uc_calls, store>>

----------------------------------------------------------------------------
(* Bounds of the model.                                                    *)

\* posting ids a ticker page may carry are 0..MaxPid (0 is the falsy id)
MaxPid == 1
\* longest page the arbitrary backend returns
MaxPageLen == 2
\* page requests one get_thread_postings call may issue in the model
MaxRequests == 3
\* postings held by the store backend (ids 1..MaxStore)
MaxStore == 2
\* nodes of a forum reply forest
MaxNodes == 3
\* update_cookies calls in one behaviour
MaxRefresh == 2

----------------------------------------------------------------------------
(* Values.                                                                 *)

\* Python's None, for skip_to, _cookies and parent_id
None == -1

TT == "get_ticker_threads"
TP == "get_thread_postings"
FP == "get_forum_postings"
UC == "update_cookies"
NetOps == {TT, TP, FP}
Ops == NetOps \cup {UC}

Pids == 0..MaxPid

\* Python truth value of a skip_to argument: None, 0 and "" are falsy.
Truthy(x) == x # None /\ x # 0

\* The pages of at most maxlen postings over ids, as returned to request k.
\* The text of a posting is stamped with the request that returned it, so a
\* posting that reappears on a later page carries different content.
PagesOf(ids, maxlen, k) ==
    UNION {[1..n -> {[pid |-> i, tx |-> k] : i \in ids}] : n \in 0..maxlen}

----------------------------------------------------------------------------
(* The event loop.                                                         *)

\* update_cookies leaves `with ThreadPoolExecutor() as pool:` through
\* Executor.__exit__, which calls shutdown(wait=True) on the loop's thread:
\* while the worker thread is still running, no task of the loop can run.
LoopBlocked == pc[UC] = "shutdown" /\ worker = "running"

----------------------------------------------------------------------------
(* Sessions.                                                               *)

\* The session object the caller passes as client_session.
CallerSession == [own |-> FALSE, op |-> "caller", k |-> 0, cookies |-> None]

\* self.session(): a new ClientSession carrying the stored cookies.
session(op, k) == [own |-> TRUE, op |-> op, k |-> k, cookies |-> cookies]

\* _session_context: the caller's session in a nullcontext if supplied,
\* else a new session that the async-with closes on exit.
_session_context(client_session, op, k) ==
    IF client_session THEN CallerSession ELSE session(op, k)

\* The identity of a session object, as the request log keeps it.
SessionId(s) == [own |-> s.own, op |-> s.op, k |-> s.k]

\* __aenter__ of the context: a new session is open from here on.
LiveAfterEnter(s, l) == IF s.own THEN l \cup {s} ELSE l

LiveAfterExit_leak(id, l) == l

\* __aexit__ of the context, on every exit path of the async-with:
\* ClientSession.__aexit__ closes the session, nullcontext does nothing.
LiveAfterExit(id, l) ==
    IF id.own THEN {s \in l : SessionId(s) # id} ELSE l

\* What __aexit__ does to the caller's session.
CallerAfterExit(s, c) == c

\* The session of the request the operation is waiting on.
CurrentSession(op) == requests[op][Len(requests[op])].session

----------------------------------------------------------------------------
(* Ticker API: get_thread_postings.                                        *)

\* _get_thread_postings_page builds the URL: skipToPostingId is appended
\* only `if skip_to:`.
PageRequest(skip_to, ctx) ==
    [kind    |-> "postings",
     skip    |-> IF Truthy(skip_to) THEN skip_to ELSE None,
     session |-> SessionId(ctx)]

PageNonEmpty_atLeastTwo(p) == Len(p) > 1

\* `while page["p"]:`
PageNonEmpty(p) == p # <<>>

\* d[p["pid"]] = p on a dict kept as the sequence of its values in
\* insertion order: a known key keeps its place and takes the new value.
DictPut(d, p) ==
    IF \E i \in 1..Len(d) : d[i].pid = p.pid
    THEN [i \in 1..Len(d) |-> IF d[i].pid = p.pid THEN p ELSE d[i]]
    ELSE Append(d, p)

RECURSIVE DictOf(_)
DictOf(s) ==
    IF s = <<>> THEN <<>>
    ELSE DictPut(DictOf(SubSeq(s, 1, Len(s) - 1)), s[Len(s)])

Dedup_none(s) == s

\* list({p["pid"]: p for p in postings}.values())
Dedup(s) == DictOf(s)

\* Posting(posting_id=p["pid"], ..., message=p.get("tx") or None, ...)
TickerPosting(p) == [posting_id |-> p.pid, message |-> p.tx]

ThreadPostingsResult(acc) ==
    LET d == Dedup(acc) IN [i \in 1..Len(d) |-> TickerPosting(d[i])]

\* The call: postings = [] and the first page request, without skip_to.
GetThreadPostings(client_session) ==
    /\ ~LoopBlocked
    /\ pc[TP] = "idle"
    /\ LET ctx == _session_context(client_session, TP, 1) IN
        /\ requests' = [requests EXCEPT ![TP] = <<PageRequest(None, ctx)>>]
        /\ live' = LiveAfterEnter(ctx, live)
    /\ cs' = [cs EXCEPT ![TP] = client_session]
    /\ pc' = [pc EXCEPT ![TP] = "wait"]
    /\ postings' = <<>>
    /\ UNCHANGED <<cookies, caller_session, failed_at, fetched, tp_result,
                   fp_result, forest, raw_postings, worker, uc_calls,
                   store>>

\* A non-empty page arrives: one iteration of the while loop, up to the
\* await of the next page.
ThreadPostingsPage(p) ==
    /\ ~LoopBlocked
    /\ pc[TP] = "wait"
    /\ PageNonEmpty(p)
    /\ Len(requests[TP]) < MaxRequests
    /\ LET skip_to == p[Len(p)].pid
           ctx == _session_context(cs[TP], TP, Len(requests[TP]) + 1)
       IN
        /\ requests' = [requests EXCEPT
                            ![TP] = Append(@, PageRequest(skip_to, ctx))]
        /\ live' = LiveAfterEnter(ctx, LiveAfterExit(CurrentSession(TP), live))
    /\ caller_session' = CallerAfterExit(CurrentSession(TP), caller_session)
    /\ postings' = postings \o p
    /\ fetched' = Append(fetched, p)
    /\ UNCHANGED <<cookies, pc, cs, failed_at, tp_result, fp_result, forest,
                   raw_postings, worker, uc_calls, store>>

\* An empty page arrives: the loop ends, duplicates are removed and the
\* postings are returned.
ThreadPostingsEnd(p) ==
    /\ ~LoopBlocked
    /\ pc[TP] = "wait"
    /\ ~PageNonEmpty(p)
    /\ live' = LiveAfterExit(CurrentSession(TP), live)
    /\ caller_session' = CallerAfterExit(CurrentSession(TP), caller_session)
    /\ fetched' = Append(fetched, p)
    /\ tp_result' = ThreadPostingsResult(postings)
    /\ pc' = [pc EXCEPT ![TP] = "done"]
    /\ UNCHANGED <<cookies, cs, requests, failed_at, postings, fp_result,
                   forest, raw_postings, worker, uc_calls, store>>

AbortedResult_partial(acc) == ThreadPostingsResult(acc)

\* What get_thread_postings hands to its caller when a page request raises:
\* the exception leaves the coroutine, the accumulated list is dropped.
AbortedResult(acc) == <<>>

Waiting(op) == pc[op] \in {"wait", "wait_id"}

\* A request of a network operation does not complete: the transport fails,
\* the response is malformed (resp.json() or a subscript raises), or the
\* task is cancelled while it awaits.  The exception leaves the async-with
\* and the coroutine; nothing catches it.
Abort(op, reason) ==
    /\ ~LoopBlocked
    /\ Waiting(op)
    /\ live' = LiveAfterExit(CurrentSession(op), live)
    /\ caller_session' = CallerAfterExit(CurrentSession(op), caller_session)
    /\ pc' = [pc EXCEPT ![op] =
                 IF reason = "cancelled" THEN "cancelled" ELSE "failed"]
    /\ failed_at' = [failed_at EXCEPT ![op] = Len(requests[op])]
    /\ tp_result' = IF op = TP THEN AbortedResult(postings) ELSE tp_result
    /\ UNCHANGED <<cookies, cs, requests, postings, fetched, fp_result,
                   forest, raw_postings, worker, uc_calls, store>>

AbortReasons == {"network", "malformed", "cancelled"}

----------------------------------------------------------------------------
(* Ticker API: get_ticker_threads.                                         *)

GetTickerThreads(client_session) ==
    /\ ~LoopBlocked
    /\ pc[TT] = "idle"
    /\ LET ctx == _session_context(client_session, TT, 1)
           req == [kind    |-> "redcontent",
                   skip    |-> None,
                   session |-> SessionId(ctx)]
       IN
        /\ requests' = [requests EXCEPT ![TT] = <<req>>]
        /\ live' = LiveAfterEnter(ctx, live)
    /\ cs' = [cs EXCEPT ![TT] = client_session]
    /\ pc' = [pc EXCEPT ![TT] = "wait"]
    /\ UNCHANGED <<cookies, caller_session, failed_at, postings, fetched,
                   tp_result, fp_result, forest, raw_postings, worker,
                   uc_calls, store>>

\* The response arrives and the threads are returned.
TickerThreadsResponse ==
    /\ ~LoopBlocked
    /\ pc[TT] = "wait"
    /\ live' = LiveAfterExit(CurrentSession(TT), live)
    /\ caller_session' = CallerAfterExit(CurrentSession(TT), caller_session)
    /\ pc' = [pc EXCEPT ![TT] = "done"]
    /\ UNCHANGED <<cookies, cs, requests, failed_at, postings, fetched,
                   tp_result, fp_result, forest, raw_postings, worker,
                   uc_calls, store>>

----------------------------------------------------------------------------
(* Forum API: the reply forests the backend can return.                    *)

\* par[i] is the parent of node i, 0 for a root posting.
ParentVectors(n) == {par \in [1..n -> 0..n] : \A i \in 1..n : par[i] < i}

Statuses == {"Published", "Deleted"}

RECURSIVE Ascending(_)
Ascending(S) ==
    IF S = {} THEN <<>>
    ELSE LET m == CHOOSE x \in S : \A y \in S : x <= y
         IN <<m>> \o Ascending(S \ {m})

Reverse(q) == [i \in 1..Len(q) |-> q[Len(q) + 1 - i]]

\* The replies of node i (the roots for i = 0), in the backend's order.
ChildrenOf(par, desc, i) ==
    LET a == Ascending({j \in DOMAIN par : par[j] = i})
    IN IF desc THEN Reverse(a) ELSE a

RECURSIVE RootOf(_, _)
RootOf(par, i) == IF par[i] = 0 THEN i ELSE RootOf(par, par[i])

\* A node as the response carries it: the fields nodequery asks for.
RECURSIVE NodeOf(_, _, _, _)
NodeOf(par, st, desc, i) ==
    LET ch == ChildrenOf(par, desc, i) IN
    [id              |-> i,
     lifecycleStatus |-> st[i],
     rootPostingId   |-> RootOf(par, i),
     replies         |-> [k \in 1..Len(ch) |-> NodeOf(par, st, desc, ch[k])]]

\* response["data"]["getForumRootPostings"]["edges"][*]["node"]
RootsOf(par, st, desc) ==
    LET ch == ChildrenOf(par, desc, 0)
    IN [k \in 1..Len(ch) |-> NodeOf(par, st, desc, ch[k])]

ForestsOf(maxn) ==
    UNION {{RootsOf(par, st, desc) :
                par \in ParentVectors(n), st \in [1..n -> Statuses],
                desc \in BOOLEAN} : n \in 0..maxn}

----------------------------------------------------------------------------
(* Forum API: get_forum_postings.                                          *)

RECURSIVE Concat(_)
Concat(qs) == IF qs = <<>> THEN <<>> ELSE Head(qs) \o Concat(Tail(qs))

linearize_shallow(edges) ==
    edges \o Concat([k \in 1..Len(edges) |-> edges[k].replies])

\* def linearize(edges):
\*     postings = [e for e in edges]
\*     for e in edges: postings += linearize(e["replies"])
\*     return postings
RECURSIVE linearize(_), LinearizeReplies(_, _)
linearize(edges) == edges \o LinearizeReplies(edges, 1)

\* the for loop of linearize, from the k-th edge on
LinearizeReplies(edges, k) ==
    IF k > Len(edges) THEN <<>>
    ELSE linearize(edges[k].replies) \o LinearizeReplies(edges, k + 1)

Published_any(p) == TRUE

\* `if p["lifecycleStatus"] == "Published"`
Published(p) == p.lifecycleStatus = "Published"

\* Posting(posting_id=p["id"],
\*         parent_id=None if p["id"] == p["rootPostingId"] else p["rootPostingId"], ...)
ForumPosting(p) ==
    [posting_id |-> p.id,
     parent_id  |-> IF p.id = p.rootPostingId THEN None ELSE p.rootPostingId]

\* the list comprehension that converts raw_postings
ForumResult(raw) ==
    LET kept == SelectSeq(raw, Published)
    IN [i \in 1..Len(kept) |-> ForumPosting(kept[i])]

ForumRequest(kind, ctx) ==
    [kind    |-> kind,
     skip    |-> None,
     session |-> SessionId(ctx)]

\* The call: _get_forum_id issues the GetForumInfo lookup.
GetForumPostings(client_session) ==
    /\ ~LoopBlocked
    /\ pc[FP] = "idle"
    /\ LET ctx == _session_context(client_session, FP, 1) IN
        /\ requests' = [requests EXCEPT
                            ![FP] = <<ForumRequest("GetForumInfo", ctx)>>]
        /\ live' = LiveAfterEnter(ctx, live)
    /\ cs' = [cs EXCEPT ![FP] = client_session]
    /\ pc' = [pc EXCEPT ![FP] = "wait_id"]
    /\ UNCHANGED <<cookies, caller_session, failed_at, postings, fetched,
                   tp_result, fp_result, forest, raw_postings, worker,
                   uc_calls, store>>

\* The forum id arrives: the ThreadsByForumQuery request is issued.
ForumIdResponse ==
    /\ ~LoopBlocked
    /\ pc[FP] = "wait_id"
    /\ LET ctx == _session_context(cs[FP], FP, 2) IN
        /\ requests' = [requests EXCEPT
                            ![FP] = Append(@, ForumRequest("ThreadsByForumQuery", ctx))]
        /\ live' = LiveAfterEnter(ctx, LiveAfterExit(CurrentSession(FP), live))
    /\ caller_session' = CallerAfterExit(CurrentSession(FP), caller_session)
    /\ pc' = [pc EXCEPT ![FP] = "wait"]
    /\ UNCHANGED <<cookies, cs, failed_at, postings, fetched, tp_result,
                   fp_result, forest, raw_postings, worker, uc_calls, store>>

\* The reply forest arrives: it is linearized, filtered and converted.
ForumThreadsResponse(root) ==
    /\ ~LoopBlocked
    /\ pc[FP] = "wait"
    /\ forest' = root
    /\ raw_postings' = linearize(root)
    /\ fp_result' = ForumResult(raw_postings')
    /\ live' = LiveAfterExit(CurrentSession(FP), live)
    /\ caller_session' = CallerAfterExit(CurrentSession(FP), caller_session)
    /\ pc' = [pc EXCEPT ![FP] = "done"]
    /\ UNCHANGED <<cookies, cs, requests, failed_at, postings, fetched,
                   tp_result, worker, uc_calls, store>>

----------------------------------------------------------------------------
(* Accept terms and conditions: update_cookies.                            *)

\* The cookie jar the n-th run of _accept_conditions returns.
Jar(n) == n

\* The call: a ThreadPoolExecutor is created, _accept_conditions is handed
\* to it with run_in_executor and the task awaits the future.
UpdateCookies ==
    /\ ~LoopBlocked
    /\ pc[UC] \in {"idle", "done", "failed", "cancelled"}
    /\ uc_calls < MaxRefresh
    /\ uc_calls' = uc_calls + 1
    /\ worker' = "running"
    /\ pc' = [pc EXCEPT ![UC] = "await"]
    /\ UNCHANGED <<cookies, caller_session, live, cs, requests, failed_at,
                   postings, fetched, tp_result, fp_result, forest,
                   raw_postings, store>>

\* Worker thread: the button was clicked, the cookies are returned.
AcceptConditionsReturn ==
    /\ worker = "running"
    /\ worker' = "returned"
    /\ UNCHANGED <<cookies, caller_session, live, pc, cs, requests,
                   failed_at, postings, fetched, tp_result, fp_result,
                   forest, raw_postings, uc_calls, store>>

\* Worker thread: TimeoutError, or any error of the browser automation.
AcceptConditionsRaise ==
    /\ worker = "running"
    /\ worker' = "raised"
    /\ UNCHANGED <<cookies, caller_session, live, pc, cs, requests,
                   failed_at, postings, fetched, tp_result, fp_result,
                   forest, raw_postings, uc_calls, store>>

CookiesAfterFailure_reset(c) == None

\* self._cookies when the awaited future raises: the assignment of
\* `self._cookies = await ...` is never reached.
CookiesAfterFailure(c) == c

\* The future has its result: self._cookies = <result>, the pool is shut
\* down (the worker is idle) and the call returns.
UpdateCookiesStore ==
    /\ ~LoopBlocked
    /\ pc[UC] = "await"
    /\ worker = "returned"
    /\ cookies' = Jar(uc_calls)
    /\ worker' = "idle"
    /\ pc' = [pc EXCEPT ![UC] = "done"]
    /\ UNCHANGED <<caller_session, live, cs, requests, failed_at, postings,
                   fetched, tp_result, fp_result, forest, raw_postings,
                   uc_calls, store>>

\* The future has an exception: it is raised at the await.
UpdateCookiesRaise ==
    /\ ~LoopBlocked
    /\ pc[UC] = "await"
    /\ worker = "raised"
    /\ cookies' = CookiesAfterFailure(cookies)
    /\ worker' = "idle"
    /\ pc' = [pc EXCEPT ![UC] = "failed"]
    /\ UNCHANGED <<caller_session, live, cs, requests, failed_at, postings,
                   fetched, tp_result, fp_result, forest, raw_postings,
                   uc_calls, store>>

\* The task is cancelled while it awaits: CancelledError is raised at the
\* await and the with statement calls pool.shutdown(wait=True).
UpdateCookiesCancel ==
    /\ ~LoopBlocked
    /\ pc[UC] = "await"
    /\ pc' = [pc EXCEPT ![UC] = "shutdown"]
    /\ UNCHANGED <<cookies, caller_session, live, cs, requests, failed_at,
                   postings, fetched, tp_result, fp_result, forest,
                   raw_postings, worker, uc_calls, store>>

\* shutdown(wait=True) returns once the worker thread has ended; the
\* worker's result is dropped and CancelledError leaves the coroutine.
UpdateCookiesCancelled ==
    /\ pc[UC] = "shutdown"
    /\ worker # "running"
    /\ worker' = "idle"
    /\ pc' = [pc EXCEPT ![UC] = "cancelled"]
    /\ UNCHANGED <<cookies, caller_session, live, cs, requests, failed_at,
                   postings, fetched, tp_result, fp_result, forest,
                   raw_postings, uc_calls, store>>

----------------------------------------------------------------------------
(* Backends of the ticker postings endpoint.                               *)

\* Any backend: every page over the posting ids may answer request k.
Pages(k) == PagesOf(Pids, MaxPageLen, k)

\* The store backend holds the postings of `store` in that order and
\* answers skipToPostingId = c with the postings from c on: after c, or
\* overlapping the previous page by up to MaxOverlap postings.
MaxOverlap == 1

Stores ==
    UNION {{q \in [1..n -> 1..MaxStore] :
                \A i, j \in 1..n : i # j => q[i] # q[j]} : n \in 0..MaxStore}

PositionOf(q, pid) ==
    IF \E i \in 1..Len(q) : q[i] = pid
    THEN CHOOSE i \in 1..Len(q) : q[i] = pid
    ELSE 0

Max(a, b) == IF a >= b THEN a ELSE b
Min(a, b) == IF a <= b THEN a ELSE b

StorePagesFor(req, k) ==
    LET pos == IF req.skip = None THEN 0 ELSE PositionOf(store, req.skip)
        starts == IF pos = 0 THEN {1}
                  ELSE {Max(1, pos + 1 - ov) : ov \in 0..MaxOverlap}
    IN {[i \in 1..(Min(Len(store), from + n - 1) - from + 1) |->
            [pid |-> store[from + i - 1], tx |-> k]] :
        from \in starts, n \in 1..MaxPageLen}

\* The pages the store backend may answer the outstanding request with.
StorePages ==
    IF pc[TP] = "wait"
    THEN StorePagesFor(requests[TP][Len(requests[TP])], Len(requests[TP]))
    ELSE {}

----------------------------------------------------------------------------
(* Specifications.                                                         *)

Init ==
    /\ cookies = None
    /\ caller_session = "open"
    /\ live = {}
    /\ pc = [op \in Ops |-> "idle"]
    /\ cs = [op \in NetOps |-> FALSE]
    /\ requests = [op \in NetOps |-> <<>>]
    /\ failed_at = [op \in NetOps |-> 0]
    /\ postings = <<>>
    /\ fetched = <<>>
    /\ tp_result = <<>>
    /\ fp_result = <<>>
    /\ forest = <<>>
    /\ raw_postings = <<>>
    /\ worker = "idle"
    /\ uc_calls = 0
    /\ store = <<>>

\* get_thread_postings against any backend.
NextTicker ==
    \/ \E c \in BOOLEAN : GetThreadPostings(c)
    \/ \E p \in Pages(Len(requests[TP])) : ThreadPostingsPage(p)
    \/ \E p \in Pages(Len(requests[TP])) : ThreadPostingsEnd(p)
    \/ \E r \in AbortReasons : Abort(TP, r)

SpecTicker == Init /\ [][NextTicker]_vars

\* get_thread_postings against the store backend.
InitStore ==
    /\ Init!1 /\ Init!2 /\ Init!3 /\ Init!4 /\ Init!5 /\ Init!6 /\ Init!7
    /\ Init!8 /\ Init!9 /\ Init!10 /\ Init!11 /\ Init!12 /\ Init!13
    /\ Init!14 /\ Init!15
    /\ store \in Stores

NextStore ==
    \/ \E c \in BOOLEAN : GetThreadPostings(c)
    \/ \E p \in StorePages : ThreadPostingsPage(p)
    \/ \E p \in StorePages : ThreadPostingsEnd(p)
    \/ \E r \in AbortReasons : Abort(TP, r)

SpecStore == InitStore /\ [][NextStore]_vars

\* get_forum_postings against every reply forest of at most MaxNodes nodes.
NextForum ==
    \/ \E c \in BOOLEAN : GetForumPostings(c)
    \/ ForumIdResponse
    \/ \E root \in ForestsOf(MaxNodes) : ForumThreadsResponse(root)
    \/ \E r \in AbortReasons : Abort(FP, r)

SpecForum == Init /\ [][NextForum]_vars

\* All four operations as concurrent tasks of one event loop, the network
\* operations against small responses.
Next ==
    \/ \E c \in BOOLEAN : GetTickerThreads(c)
    \/ TickerThreadsResponse
    \/ \E c \in BOOLEAN : GetThreadPostings(c)
    \/ \E p \in PagesOf({1}, 1, Len(requests[TP])) : ThreadPostingsPage(p)
    \/ \E p \in PagesOf({1}, 1, Len(requests[TP])) : ThreadPostingsEnd(p)
    \/ \E c \in BOOLEAN : GetForumPostings(c)
    \/ ForumIdResponse
    \/ \E root \in ForestsOf(1) : ForumThreadsResponse(root)
    \/ \E op \in NetOps, r \in AbortReasons : Abort(op, r)
    \/ UpdateCookies
    \/ AcceptConditionsReturn
    \/ AcceptConditionsRaise
    \/ UpdateCookiesStore
    \/ UpdateCookiesRaise
    \/ UpdateCookiesCancel
    \/ UpdateCookiesCancelled

Spec == Init /\ [][Next]_vars

----------------------------------------------------------------------------
(* Properties of get_thread_postings.                                      *)

ResultIds == {tp_result[i].posting_id : i \in 1..Len(tp_result)}

PidsOfPage(p) == {p[m].pid : m \in 1..Len(p)}

PidsFetched == UNION {PidsOfPage(fetched[k]) : k \in 1..Len(fetched)}

\* C1: the list get_thread_postings returns holds no posting id twice, and
\* every posting id of every fetched page is in it exactly once.
C1_NoDuplicateIds ==
    pc[TP] = "done" =>
        /\ \A i, j \in 1..Len(tp_result) :
              i # j => tp_result[i].posting_id # tp_result[j].posting_id
        /\ \A pid \in PidsFetched :
              Cardinality({i \in 1..Len(tp_result) :
                              tp_result[i].posting_id = pid}) = 1

\* a posting came back on two different pages, and the call has returned
C1_Witness ==
    /\ pc[TP] = "done"
    /\ Len(tp_result) >= 2
    /\ \E k, l \in 1..Len(fetched) :
          k # l /\ PidsOfPage(fetched[k]) \cap PidsOfPage(fetched[l]) # {}

\* C2: N non-empty pages and then an empty one make exactly N+1 requests;
\* the call stops at the first empty page and returns the postings of the
\* N pages, one per id.  While it waits, one request more than pages
\* received has been issued and no page received so far was empty.
C2_Pagination ==
    /\ pc[TP] = "wait" =>
          /\ Len(requests[TP]) = Len(fetched) + 1
          /\ \A k \in 1..Len(fetched) : fetched[k] # <<>>
    /\ pc[TP] = "done" =>
          LET N == Len(fetched) - 1 IN
          /\ N >= 0
          /\ Len(requests[TP]) = N + 1
          /\ fetched[N + 1] = <<>>
          /\ \A k \in 1..N : fetched[k] # <<>>
          /\ ResultIds = UNION {PidsOfPage(fetched[k]) : k \in 1..N}
          /\ Len(tp_result) = Cardinality(ResultIds)
          /\ (N = 0 => tp_result = <<>>)

\* two non-empty pages, then the empty one
C2_Witness ==
    /\ pc[TP] = "done"
    /\ Len(fetched) = 3
    /\ Len(requests[TP]) = 3
    /\ tp_result # <<>>

\* C3: the cursor sent in successive page requests never repeats a value
\* (against the store backend, whose pages may overlap).
C3_CursorNeverRepeats ==
    \A i, j \in 1..Len(requests[TP]) :
        i < j => requests[TP][i].skip # requests[TP][j].skip

\* C10: the first page request carries no skipToPostingId; every later one
\* carries the id of the last posting of the page fetched just before it.
C10_CursorProtocol ==
    \A k \in 1..Len(requests[TP]) :
        requests[TP][k].skip =
            IF k = 1 THEN None ELSE fetched[k - 1][Len(fetched[k - 1])].pid

----------------------------------------------------------------------------
(* Properties of get_forum_postings.                                       *)

\* the nodes of a forest
RECURSIVE NodesIn(_)
NodesIn(edges) ==
    {edges[k] : k \in 1..Len(edges)}
        \cup UNION {NodesIn(edges[k].replies) : k \in 1..Len(edges)}

\* the pre-order traversal of a forest: every node, then its own subtree
RECURSIVE PreOrder(_)
PreOrder(edges) ==
    IF edges = <<>> THEN <<>>
    ELSE <<Head(edges)>> \o PreOrder(Head(edges).replies)
         \o PreOrder(Tail(edges))

PositionInRaw(n) == CHOOSE i \in 1..Len(raw_postings) : raw_postings[i] = n

\* the members of a sibling group are next to each other, in their order
Adjacent(siblings) ==
    \A k \in 1..(Len(siblings) - 1) :
        PositionInRaw(siblings[k + 1]) = PositionInRaw(siblings[k]) + 1

\* C4 (as the claim states it): linearize yields the pre-order traversal.
C4_PreOrder ==
    pc[FP] = "done" => raw_postings = PreOrder(forest)

\* C4 (amended): linearize yields one entry per node of the forest; every
\* node comes before all of its descendants; siblings keep the backend's
\* order and are listed next to each other, the root postings first and
\* the replies of a node after the whole sibling group of that node.
C4_Linearize ==
    pc[FP] = "done" =>
        /\ Len(raw_postings) = Cardinality(NodesIn(forest))
        /\ {raw_postings[i] : i \in 1..Len(raw_postings)} = NodesIn(forest)
        /\ \A i, j \in 1..Len(raw_postings) :
              raw_postings[j] \in NodesIn(raw_postings[i].replies) => i < j
        /\ \A k \in 1..Len(forest) : raw_postings[k] = forest[k]
        /\ \A n \in NodesIn(forest) : Adjacent(n.replies)

\* a forest where the two orders differ: the first root posting has a reply
\* and is not the last root posting
C4_Witness ==
    /\ pc[FP] = "done"
    /\ Len(forest) >= 2
    /\ forest[1].replies # <<>>
    /\ raw_postings # PreOrder(forest)

\* C5: the result holds exactly the Published nodes of the forest, each
\* once, in the order of raw_postings; a dropped node's replies stay.
C5_OnlyPublished ==
    pc[FP] = "done" =>
        /\ {fp_result[i].posting_id : i \in 1..Len(fp_result)} =
              {n.id : n \in {m \in NodesIn(forest) :
                                m.lifecycleStatus = "Published"}}
        /\ Len(fp_result) =
              Cardinality({m \in NodesIn(forest) :
                              m.lifecycleStatus = "Published"})
        /\ \A i, j \in 1..Len(fp_result) :
              i < j =>
                  \E a, b \in 1..Len(raw_postings) :
                      /\ a < b
                      /\ raw_postings[a].id = fp_result[i].posting_id
                      /\ raw_postings[b].id = fp_result[j].posting_id

\* a root posting that is not Published was dropped and its Published reply
\* is returned, with a parent_id that is not in the result
C5_Witness ==
    /\ pc[FP] = "done"
    /\ \E i \in 1..Len(fp_result) :
          /\ fp_result[i].parent_id # None
          /\ \A j \in 1..Len(fp_result) :
                fp_result[j].posting_id # fp_result[i].parent_id
    /\ \E n \in NodesIn(forest) : n.lifecycleStatus # "Published"

----------------------------------------------------------------------------
(* Properties of the client: sessions, cookies, failures, the event loop.  *)

Ended(op) == pc[op] \in {"done", "failed", "cancelled"}

\* C6: when an operation has ended, on whatever path, no session the client
\* created for it is open; a session the caller supplied carries every
\* request of the operation and the client never closes it.
C6_SessionOwnership ==
    /\ caller_session = "open"
    /\ \A op \in NetOps :
          /\ Ended(op) => \A s \in live : s.op # op
          /\ \A k \in 1..Len(requests[op]) :
                IF cs[op]
                THEN requests[op][k].session = SessionId(CallerSession)
                ELSE /\ requests[op][k].session.own
                     /\ requests[op][k].session.op = op
                     /\ requests[op][k].session.k = k

\* one operation was cancelled on its own session after several requests,
\* one failed, one ran to its end on the caller's session
C6_Witness ==
    /\ pc[TP] = "cancelled" /\ ~cs[TP] /\ Len(requests[TP]) >= 2
    /\ pc[TT] = "failed" /\ ~cs[TT]
    /\ pc[FP] = "done" /\ cs[FP] /\ Len(requests[FP]) = 2

\* C7: the stored cookies are None on a new client and change only in the
\* step in which update_cookies stores the jar its worker returned.
C7_CookiesFrame ==
    /\ cookies = None
    /\ [][cookies' # cookies =>
            /\ pc[UC] = "await"
            /\ worker = "returned"
            /\ pc'[UC] = "done"
            /\ cookies' = Jar(uc_calls)]_vars

\* a refresh failed after an earlier one had succeeded: the stale jar stays
C7_Witness ==
    /\ pc[UC] = "failed"
    /\ cookies = Jar(1)
    /\ uc_calls = 2
    /\ \E op \in NetOps : pc[op] = "done"

\* the steps a network operation can take
OpStep(op) ==
    \/ op = TT /\ \E c \in BOOLEAN : GetTickerThreads(c)
    \/ op = TT /\ TickerThreadsResponse
    \/ op = TP /\ \E c \in BOOLEAN : GetThreadPostings(c)
    \/ op = TP /\ \E p \in PagesOf({1}, 1, Len(requests[TP])) :
                     ThreadPostingsPage(p)
    \/ op = TP /\ \E p \in PagesOf({1}, 1, Len(requests[TP])) :
                     ThreadPostingsEnd(p)
    \/ op = FP /\ \E c \in BOOLEAN : GetForumPostings(c)
    \/ op = FP /\ ForumIdResponse
    \/ op = FP /\ \E root \in ForestsOf(1) : ForumThreadsResponse(root)
    \/ \E r \in AbortReasons : Abort(op, r)

\* C8: while an update_cookies call has not ended, every other operation
\* that has not ended can take its next step.
C8_NeverBlocked ==
    pc[UC] \in {"await", "shutdown"} =>
        \A op \in NetOps : ~Ended(op) => ENABLED OpStep(op)

\* C9: a failed request ends the operation: it is the last request the
\* operation issued, and the operation returns nothing.
C9_FailureAborts ==
    \A op \in NetOps :
        pc[op] = "failed" =>
            /\ failed_at[op] >= 1
            /\ Len(requests[op]) = failed_at[op]
            /\ op = TP => tp_result = <<>>
            /\ op = FP => fp_result = <<>> /\ raw_postings = <<>>

\* the second page request failed after a page of postings had been
\* accumulated, and the forum-id lookup failed
C9_Witness ==
    /\ pc[TP] = "failed" /\ failed_at[TP] >= 2 /\ postings # <<>>
    /\ pc[FP] = "failed" /\ failed_at[FP] = 1
    /\ Len(requests[FP]) = 1

====
